---- MODULE Spec2Model ----
(***************************************************************************)
(* truvari bench: the pickers that collapse a chunk's base x comp matrix   *)
(* of MatchResults, the writer that counts and files each MatchResult,     *)
(* the run loop that joins them, and the parameter checks of bench_main.   *)
(***************************************************************************)
EXTENDS Integers, Naturals, Sequences, FiniteSets, TLC

VARIABLES
    pc,          \* where the program stands
    args,        \* the parsed command line and what it finds on disk
    errors,      \* the checks that have logged an error
    exit_code,   \* the process's exit status, -1 while it runs
    params,      \* the matcher's parameters and the Bench object's fields
    chunk,       \* the chunk the chunker yields and the matcher's measures
    ret,         \* what compare_chunk returned for the chunk
    handed,      \* the MatchResults handed to write_match, as handed
    calls,       \* how many times write_match was called
    output,      \* the BenchOutput: directory, stats box and the four files
    job,         \* trf: the catalog, the TR regions and the parameters
    tasks,       \* trf: per region, where the pool has it and its buffer
    arrived,     \* trf: the regions whose buffers wait for the coordinator
    fout,        \* trf: the output file, as a sequence of writes
    tpc          \* trf: where trf_main's coordinator stands

\* the variables of trf_main
trf_vars == <<job, tasks, arrived, fout, tpc>>

\* the variables of bench_main
bench_vars == <<pc, args, errors, exit_code, params, chunk, ret, handed, calls, output>>

vars == <<pc, args, errors, exit_code, params, chunk, ret, handed, calls, output,
          job, tasks, arrived, fout, tpc>>

\* trf_main is not running.
TrfIdle ==
    /\ job = [idle |-> TRUE]
    /\ tasks = <<>> /\ arrived = <<>> /\ fout = <<>>
    /\ tpc = [at |-> "idle", k |-> 0]

(***************************************************************************)
(* Bounds of the model.                                                    *)
(***************************************************************************)
\* most base variants and most comp variants in a chunk
MaxBase == 2
MaxComp == 2
\* most cells of a chunk's base x comp matrix
MaxCells == 4
\* highest composite score a MatchResult carries
MaxScore == 1
\* most motifs a TR region knows and most hits the repeat tool reports
MaxMotifs == 2
\* most variants in the catalog trf_main annotates, most TR regions, most
\* worker processes of its pool
MaxEntries == 2
MaxRegions == 2
MaxThreads == 2
\* most write_match calls made on one stats box in SpecWrite
MaxWrites == 3

(***************************************************************************)
(* Variants and MatchResults.                                              *)
(***************************************************************************)
\* A variant record as the bench sees it: `id` is its place in the input
\* catalog, `str` the value of str(entry), `size` truvari.entry_size(entry),
\* `inc` whether the original include regions hold it, `gt` its allele count.
\* None stands for Python's None.
None == [id |-> 0, str |-> 0, size |-> 0, inc |-> FALSE, gt |-> 0]

Abs(x) == IF x < 0 THEN -x ELSE x

\* truvari.MatchResult() as constructed: both sides None, state False.
MatchResult == [base |-> None, comp |-> None, state |-> FALSE, score |-> 0,
                st_dist |-> 0, sizediff |-> 0, gt_match |-> 0, multi |-> FALSE,
                base_gt_count |-> 0, comp_gt_count |-> 0, matid |-> <<0, 0>>]

\* MatchResult.__lt__: the total order the pickers sort by.
MatchLt(a, b) ==
    IF a.state # b.state THEN b.state
    ELSE IF a.score # b.score THEN a.score < b.score
    ELSE IF Abs(a.st_dist) # Abs(b.st_dist) THEN Abs(a.st_dist) > Abs(b.st_dist)
    ELSE Abs(a.sizediff) > Abs(b.sizediff)

(***************************************************************************)
(* The sort every greedy picker starts with.                               *)
(***************************************************************************)
RECURSIVE Concat(_)
Concat(rows) == IF rows = <<>> THEN <<>> ELSE Head(rows) \o Concat(Tail(rows))

\* np.ravel(match_matrix): the rows laid end to end.
Ravel(matrix) == Concat(matrix)

\* match_matrix.sort() then [::-1]: every descending arrangement of `flat`
\* restricted to the indexes S; results that compare equal may come in any order.
RECURSIVE Walks(_, _)
Walks(flat, S) ==
    IF S = {} THEN {<<>>}
    ELSE UNION { { <<flat[i]>> \o w : w \in Walks(flat, S \ {i}) } :
                 i \in { k \in S : \A j \in S : ~MatchLt(flat[k], flat[j]) } }

SortedWalks(matrix) == Walks(Ravel(matrix), DOMAIN Ravel(matrix))

\* collections.Counter: a missing key counts 0.
Count(counter, key) == IF key \in DOMAIN counter THEN counter[key] ELSE 0

\* Put with the update lost.
Put_lost(counter, key, n) == counter

Put(counter, key, n) ==
    [k \in DOMAIN counter \cup {key} |-> IF k = key THEN n ELSE counter[k]]

(***************************************************************************)
(* pick_single_matches                                                     *)
(***************************************************************************)
\* One pass of the for loop of pick_single_matches over what is left of the
\* sorted walk; `s` holds base_cnt, comp_cnt, used_base, used_comp and ret.
RECURSIVE single_loop(_, _)
single_loop(walk, s) ==
    IF walk = <<>> \/ (s.base_cnt = 0 /\ s.comp_cnt = 0) THEN s
    ELSE LET match == Head(walk)
             base_is_used == match.base.str \in s.used_base
             comp_is_used == match.comp.str \in s.used_comp
         IN  IF s.base_cnt = 0 /\ ~comp_is_used
             THEN single_loop(Tail(walk),
                    [s EXCEPT !.comp_cnt = @ - 1,
                              !.used_comp = @ \cup {match.comp.str},
                              !.ret = Append(@, [match EXCEPT !.base = None,
                                                              !.state = FALSE,
                                                              !.multi = TRUE])])
             ELSE IF s.comp_cnt = 0 /\ ~base_is_used
             THEN single_loop(Tail(walk),
                    [s EXCEPT !.base_cnt = @ - 1,
                              !.used_base = @ \cup {match.base.str},
                              !.ret = Append(@, [match EXCEPT !.comp = None,
                                                              !.state = FALSE,
                                                              !.multi = TRUE])])
             ELSE IF ~base_is_used /\ ~comp_is_used
             THEN single_loop(Tail(walk),
                    [s EXCEPT !.base_cnt = @ - 1,
                              !.used_base = @ \cup {match.base.str},
                              !.comp_cnt = @ - 1,
                              !.used_comp = @ \cup {match.comp.str},
                              !.ret = Append(@, match)])
             ELSE single_loop(Tail(walk), s)

\* single_end with the used sets keyed by the record, not by its str().
single_end_by_record(match_mat, walk) ==
    single_loop([i \in DOMAIN walk |->
                    [walk[i] EXCEPT !.base.str = walk[i].base.id,
                                    !.comp.str = walk[i].comp.id]],
                [base_cnt |-> Len(match_mat), comp_cnt |-> Len(match_mat[1]),
                 used_base |-> {}, used_comp |-> {}, ret |-> <<>>])

\* single_end with the two counts taken from the wrong axes of the shape.
single_end_swapped(match_mat, walk) ==
    single_loop(walk, [base_cnt |-> Len(match_mat[1]), comp_cnt |-> Len(match_mat),
                       used_base |-> {}, used_comp |-> {}, ret |-> <<>>])

\* The state pick_single_matches ends in when the sort yields `walk`.
single_end(match_mat, walk) ==
    single_loop(walk, [base_cnt |-> Len(match_mat), comp_cnt |-> Len(match_mat[1]),
                       used_base |-> {}, used_comp |-> {}, ret |-> <<>>])

pick_single_matches(match_mat, walk) == single_end(match_mat, walk).ret

(***************************************************************************)
(* pick_gtcomp_matches                                                     *)
(***************************************************************************)
\* The safety check dropped: whatever was processed is appended.
has_side_unchecked(to_process) == TRUE

\* "Safety edge case check": a result is appended only with a side left.
has_side(to_process) == to_process.base # None \/ to_process.comp # None

RECURSIVE gtcomp_loop(_, _)
gtcomp_loop(walk, s) ==
    IF walk = <<>> \/ (s.base_cnt = 0 /\ s.comp_cnt = 0) THEN s
    ELSE LET match == Head(walk)
             b_key == match.base.str
             c_key == match.comp.str
             base_is_used == Count(s.used_base, b_key) >= match.base_gt_count
             comp_is_used == Count(s.used_comp, c_key) >= match.comp_gt_count
         IN  IF s.base_cnt = 0 /\ ~comp_is_used
             THEN gtcomp_loop(Tail(walk),
                    [s EXCEPT !.comp_cnt = @ - 1,
                              !.used_comp = Put(@, c_key, 9),
                              !.ret = IF Count(s.used_comp, c_key) = 0
                                      THEN Append(@, [match EXCEPT !.base = None,
                                                                   !.state = FALSE,
                                                                   !.multi = TRUE])
                                      ELSE @])
             ELSE IF s.comp_cnt = 0 /\ ~base_is_used
             THEN gtcomp_loop(Tail(walk),
                    [s EXCEPT !.base_cnt = @ - 1,
                              !.used_base = Put(@, b_key, 9),
                              !.ret = IF Count(s.used_base, b_key) = 0
                                      THEN Append(@, [match EXCEPT !.comp = None,
                                                                   !.state = FALSE,
                                                                   !.multi = TRUE])
                                      ELSE @])
             ELSE IF ~base_is_used /\ ~comp_is_used
             THEN LET to_process ==
                        [match EXCEPT
                           !.base = IF Count(s.used_base, b_key) # 0 THEN None ELSE @,
                           !.comp = IF Count(s.used_comp, c_key) # 0 THEN None ELSE @]
                      new_base == Count(s.used_base, b_key) + match.comp_gt_count
                      new_comp == Count(s.used_comp, c_key) + match.base_gt_count
                  IN  gtcomp_loop(Tail(walk),
                        [s EXCEPT !.used_base = Put(@, b_key, new_base),
                                  !.used_comp = Put(@, c_key, new_comp),
                                  !.base_cnt = IF new_base >= match.base_gt_count
                                               THEN @ - 1 ELSE @,
                                  !.comp_cnt = IF new_comp >= match.comp_gt_count
                                               THEN @ - 1 ELSE @,
                                  !.ret = IF has_side(to_process)
                                          THEN Append(@, to_process) ELSE @])
             ELSE gtcomp_loop(Tail(walk), s)

gtcomp_end(match_mat, walk) ==
    gtcomp_loop(walk, [base_cnt |-> Len(match_mat), comp_cnt |-> Len(match_mat[1]),
                       used_base |-> << >>, used_comp |-> << >>, ret |-> <<>>])

pick_gtcomp_matches(match_mat, walk) == gtcomp_end(match_mat, walk).ret

(***************************************************************************)
(* pick_multi_matches                                                      *)
(***************************************************************************)
\* match_matrix.max(axis=1) and .max(axis=0): `pick` names, for each row, a
\* column holding a maximum of the row, and for each column such a row.
MaxChoices(match_mat) ==
    LET B == Len(match_mat)
        C == Len(match_mat[1])
    IN  { p \in [row : [1..B -> 1..C], col : [1..C -> 1..B]] :
            /\ \A b \in 1..B : \A c \in 1..C :
                   ~MatchLt(match_mat[b][p.row[b]], match_mat[b][c])
            /\ \A c \in 1..C : \A b \in 1..B :
                   ~MatchLt(match_mat[p.col[c]][c], match_mat[b][c]) }

\* pick_multi_matches with the loop over the columns left out.
pick_multi_rows_only(match_mat, pick) ==
    [b \in 1..Len(match_mat) |->
        [match_mat[b][pick.row[b]] EXCEPT !.comp = None]]

pick_multi_matches(match_mat, pick) ==
    [b \in 1..Len(match_mat) |->
        [match_mat[b][pick.row[b]] EXCEPT !.comp = None]]
    \o
    [c \in 1..Len(match_mat[1]) |->
        [match_mat[pick.col[c]][c] EXCEPT !.base = None]]

(***************************************************************************)
(* Bench.build_matrix, Bench.pick_matches                                  *)
(***************************************************************************)
\* matcher.build_match(b, c, matid): the MatchResult of one pair, carrying
\* the measures `sim` the matcher took of it.
build_match(b, c, matid, sim) ==
    [MatchResult EXCEPT !.base = b, !.comp = c, !.matid = matid,
                        !.state = sim.state, !.score = sim.score,
                        !.st_dist = sim.st_dist, !.sizediff = sim.sizediff,
                        !.base_gt_count = b.gt, !.comp_gt_count = c.gt,
                        !.gt_match = Abs(b.gt - c.gt)]

\* Bench.build_matrix: a list when one side is empty, else the matrix.
build_matrix(base_variants, comp_variants, sim) ==
    IF Len(base_variants) = 0
    THEN [cid \in 1..Len(comp_variants) |->
             [MatchResult EXCEPT !.comp = comp_variants[cid], !.matid = <<0, cid>>]]
    ELSE IF Len(comp_variants) = 0
    THEN [bid \in 1..Len(base_variants) |->
             [MatchResult EXCEPT !.base = base_variants[bid], !.matid = <<bid, 0>>]]
    ELSE [bid \in 1..Len(base_variants) |->
             [cid \in 1..Len(comp_variants) |->
                 build_match(base_variants[bid], comp_variants[cid],
                             <<bid, cid>>, sim[bid][cid])]]

\* isinstance(match_matrix, list) in compare_chunk
IsList(ch) == Len(ch.base) = 0 \/ Len(ch.comp) = 0

\* Bench.pick_matches: which picker the parameters select.
Picker(p) == IF p.multimatch THEN "multi"
             ELSE IF p.gtcomp THEN "gtcomp" ELSE "single"

(***************************************************************************)
(* StatsBox, BenchOutput.write_match                                       *)
(***************************************************************************)
\* StatsBox.__init__: every counter 0.  gt_matrix maps <<gtBase, gtComp>> to
\* its count.
StatsBox == [TP_base |-> 0, TP_comp |-> 0, FP |-> 0, FN |-> 0,
             precision |-> <<0, 1>>, recall |-> <<0, 1>>, f1 |-> <<0, 1>>,
             base_cnt |-> 0, comp_cnt |-> 0,
             TP_comp_TP_gt |-> 0, TP_comp_FP_gt |-> 0,
             TP_base_TP_gt |-> 0, TP_base_FP_gt |-> 0,
             gt_concordance |-> <<0, 1>>, gt_matrix |-> << >>]

\* BenchOutput.__init__ once the directory is made and the files are open.
BenchOutput == [outdir |-> TRUE, stats_box |-> StatsBox,
                tpb_out |-> <<>>, tpc_out |-> <<>>, fn_out |-> <<>>, fp_out |-> <<>>]

\* No BenchOutput yet: nothing made, nothing written.
NoOutput == [BenchOutput EXCEPT !.outdir = FALSE]

\* The base half of write_match.
write_base(out, match) ==
    IF match.base = None THEN out
    ELSE IF match.state
    THEN [out EXCEPT
            !.stats_box.base_cnt = @ + 1,
            !.stats_box.gt_matrix =
                Put(@, <<match.base_gt_count, match.comp_gt_count>>,
                    Count(@, <<match.base_gt_count, match.comp_gt_count>>) + 1),
            !.stats_box.TP_base = @ + 1,
            !.tpb_out = Append(@, match.base.id),
            !.stats_box.TP_base_TP_gt = IF match.gt_match = 0 THEN @ + 1 ELSE @,
            !.stats_box.TP_base_FP_gt = IF match.gt_match = 0 THEN @ ELSE @ + 1]
    ELSE [out EXCEPT
            !.stats_box.base_cnt = @ + 1,
            !.stats_box.FN = @ + 1,
            !.fn_out = Append(@, match.base.id)]

\* write_comp with the FP branch forgetting to count the comp.
write_comp_nocount(out, match, sizemin) ==
    IF match.comp = None THEN out
    ELSE IF match.state
    THEN [out EXCEPT
            !.stats_box.comp_cnt = @ + 1,
            !.stats_box.TP_comp = @ + 1,
            !.tpc_out = Append(@, match.comp.id),
            !.stats_box.TP_comp_TP_gt = IF match.gt_match = 0 THEN @ + 1 ELSE @,
            !.stats_box.TP_comp_FP_gt = IF match.gt_match = 0 THEN @ ELSE @ + 1]
    ELSE IF match.comp.size >= sizemin
    THEN [out EXCEPT
            !.stats_box.FP = @ + 1,
            !.fp_out = Append(@, match.comp.id)]
    ELSE out

\* write_comp without the size floor on false positives.
write_comp_nofloor(out, match, sizemin) ==
    IF match.comp = None THEN out
    ELSE IF match.state
    THEN [out EXCEPT
            !.stats_box.comp_cnt = @ + 1,
            !.stats_box.TP_comp = @ + 1,
            !.tpc_out = Append(@, match.comp.id),
            !.stats_box.TP_comp_TP_gt = IF match.gt_match = 0 THEN @ + 1 ELSE @,
            !.stats_box.TP_comp_FP_gt = IF match.gt_match = 0 THEN @ ELSE @ + 1]
    ELSE [out EXCEPT
            !.stats_box.comp_cnt = @ + 1,
            !.stats_box.FP = @ + 1,
            !.fp_out = Append(@, match.comp.id)]

\* The comp half of write_match.
write_comp(out, match, sizemin) ==
    IF match.comp = None THEN out
    ELSE IF match.state
    THEN [out EXCEPT
            !.stats_box.comp_cnt = @ + 1,
            !.stats_box.TP_comp = @ + 1,
            !.tpc_out = Append(@, match.comp.id),
            !.stats_box.TP_comp_TP_gt = IF match.gt_match = 0 THEN @ + 1 ELSE @,
            !.stats_box.TP_comp_FP_gt = IF match.gt_match = 0 THEN @ ELSE @ + 1]
    ELSE IF match.comp.size >= sizemin
    THEN [out EXCEPT
            !.stats_box.comp_cnt = @ + 1,
            !.stats_box.FP = @ + 1,
            !.fp_out = Append(@, match.comp.id)]
    ELSE out

\* BenchOutput.write_match
write_match(out, match, sizemin) == write_comp(write_base(out, match), match, sizemin)

\* truvari.performance_metrics: each rate a fraction <<numerator, denominator>>,
\* 0 when its denominator would be 0.
performance_metrics(tpbase, tpcomp, fn, fp) ==
    LET precision == IF tpcomp + fp = 0 THEN <<0, 1>> ELSE <<tpcomp, tpcomp + fp>>
        recall == IF tpbase + fn = 0 THEN <<0, 1>> ELSE <<tpbase, tpbase + fn>>
        num == 2 * precision[1] * recall[1]
        den == precision[1] * recall[2] + recall[1] * precision[2]
    IN  [precision |-> precision, recall |-> recall,
         f1 |-> IF den = 0 THEN <<0, 1>> ELSE <<num, den>>]

\* StatsBox.calc_performance
calc_performance(box) ==
    LET m == performance_metrics(box.TP_base, box.TP_comp, box.FN, box.FP)
    IN  [box EXCEPT
           !.precision = m.precision, !.recall = m.recall, !.f1 = m.f1,
           !.gt_concordance =
               IF box.TP_comp_TP_gt + box.TP_comp_FP_gt # 0
               THEN <<box.TP_comp_TP_gt, box.TP_comp_TP_gt + box.TP_comp_FP_gt>>
               ELSE @]

(***************************************************************************)
(* The chunks the runs are given.                                          *)
(***************************************************************************)
Variant(i, s, z, n, g) == [id |-> i, str |-> s, size |-> z, inc |-> n, gt |-> g]

\* entry sizes: below and at the size floor the runs use
Sizes == {1, 2}
\* allele counts: reference or missing, heterozygous, homozygous
GtCounts == {0, 1, 2}

\* What the matcher measures of a pair: pass or fail with a score ...
PlainSims == [state : BOOLEAN, score : 0..MaxScore, st_dist : {0}, sizediff : {0}]
\* ... and, among passing pairs of the top score, a start or a size that is off.
TieSims == { [state |-> TRUE, score |-> MaxScore, st_dist |-> -1, sizediff |-> 0],
             [state |-> TRUE, score |-> MaxScore, st_dist |-> 0, sizediff |-> 1] }

Shapes == { sh \in (0..MaxBase) \X (0..MaxComp) :
              sh[1] + sh[2] >= 1 /\ sh[1] * sh[2] <= MaxCells }

\* A chunk of B base and C comp variants, all with distinct str(): the pairs
\* measured as `sm`, base allele counts `bgt`, comp size, inclusion in the
\* original include regions and allele count `ca`.
MakeChunk(B, C, sm, bgt, ca) ==
    [base |-> [i \in 1..B |-> Variant(i, i, 2, TRUE, bgt[i])],
     comp |-> [i \in 1..C |-> Variant(i, i, ca[i].size, ca[i].inc, ca[i].gt)],
     sim  |-> sm]

\* The catalog repeats its last base record: the same line, so the same str()
\* and the same measures against every comp.
DupBase(ch) ==
    LET B == Len(ch.base)
    IN  [ch EXCEPT !.base = Append(@, [ch.base[B] EXCEPT !.id = B + 1]),
                   !.sim = Append(@, ch.sim[B])]

\* The catalog repeats its last comp record.
DupComp(ch) ==
    LET C == Len(ch.comp)
    IN  [ch EXCEPT !.comp = Append(@, [ch.comp[C] EXCEPT !.id = C + 1]),
                   !.sim = [b \in 1..Len(ch.base) |-> Append(ch.sim[b], ch.sim[b][C])]]

InShape(ch) == <<Len(ch.base), Len(ch.comp)>> \in Shapes

FullShapes == { sh \in Shapes : sh[1] >= 1 /\ sh[2] >= 1 }

\* The chunk is one of `shapes`, all str() distinct, its pairs measured in
\* `sims`, allele counts in `gts`, comp sizes in `sizes`, comps inside the
\* original include regions or not as `incs` allows.
ChunkIn(shapes, sims, gts, sizes, incs) ==
    \E sh \in shapes :
      \E sm \in [1..sh[1] -> [1..sh[2] -> sims]], bgt \in [1..sh[1] -> gts],
         ca \in [1..sh[2] -> [size : sizes, inc : incs, gt : gts]] :
           chunk = MakeChunk(sh[1], sh[2], sm, bgt, ca)

\* The chunk is one in which a catalog repeats a record, or both do.
DupChunkIn(sims, sizes, incs) ==
    \E sh \in FullShapes :
      \E sm \in [1..sh[1] -> [1..sh[2] -> sims]], bgt \in [1..sh[1] -> {1}],
         ca \in [1..sh[2] -> [size : sizes, inc : incs, gt : {1}]] :
           LET seed == MakeChunk(sh[1], sh[2], sm, bgt, ca)
           IN  \E dup \in {DupBase(seed), DupComp(seed), DupComp(DupBase(seed))} :
                   InShape(dup) /\ chunk = dup

\* The chunk is one in which a catalog repeats a record, with allele counts
\* in `gts` (the repeated record has the allele count of the record it repeats).
DupGtChunkIn(sims, gts) ==
    \E sh \in FullShapes :
      \E sm \in [1..sh[1] -> [1..sh[2] -> sims]], bgt \in [1..sh[1] -> gts],
         ca \in [1..sh[2] -> [size : {2}, inc : {TRUE}, gt : gts]] :
           LET seed == MakeChunk(sh[1], sh[2], sm, bgt, ca)
           IN  \E dup \in {DupBase(seed), DupComp(seed)} :
                   InShape(dup) /\ chunk = dup

Modes == [multimatch : BOOLEAN, gtcomp : BOOLEAN]

(***************************************************************************)
(* Bench.compare_chunk                                                     *)
(***************************************************************************)
\* build_matrix gave a list: one side of the chunk is empty.
CompareChunkList ==
    /\ pc = "chunk"
    /\ IsList(chunk)
    /\ ret' = build_matrix(chunk.base, chunk.comp, chunk.sim)
    /\ pc' = "write"
    /\ UNCHANGED <<args, errors, exit_code, params, chunk, handed, calls, output>>
    /\ UNCHANGED trf_vars

CompareChunkMulti ==
    /\ pc = "chunk"
    /\ ~IsList(chunk)
    /\ Picker(params) = "multi"
    /\ LET match_matrix == build_matrix(chunk.base, chunk.comp, chunk.sim)
       IN  \E pick \in MaxChoices(match_matrix) :
               ret' = pick_multi_matches(match_matrix, pick)
    /\ pc' = "write"
    /\ UNCHANGED <<args, errors, exit_code, params, chunk, handed, calls, output>>
    /\ UNCHANGED trf_vars

CompareChunkGtcomp ==
    /\ pc = "chunk"
    /\ ~IsList(chunk)
    /\ Picker(params) = "gtcomp"
    /\ LET match_matrix == build_matrix(chunk.base, chunk.comp, chunk.sim)
       IN  \E walk \in SortedWalks(match_matrix) :
               ret' = pick_gtcomp_matches(match_matrix, walk)
    /\ pc' = "write"
    /\ UNCHANGED <<args, errors, exit_code, params, chunk, handed, calls, output>>
    /\ UNCHANGED trf_vars

CompareChunkSingle ==
    /\ pc = "chunk"
    /\ ~IsList(chunk)
    /\ Picker(params) = "single"
    /\ LET match_matrix == build_matrix(chunk.base, chunk.comp, chunk.sim)
       IN  \E walk \in SortedWalks(match_matrix) :
               ret' = pick_single_matches(match_matrix, walk)
    /\ pc' = "write"
    /\ UNCHANGED <<args, errors, exit_code, params, chunk, handed, calls, output>>
    /\ UNCHANGED trf_vars

(***************************************************************************)
(* The pickers on every matrix.                                            *)
(***************************************************************************)
NoArgs == [checked |-> FALSE]

InitPick ==
    /\ pc = "chunk"
    /\ args = NoArgs /\ errors = {} /\ exit_code = -1
    /\ \E m \in Modes : params = [multimatch |-> m.multimatch, gtcomp |-> m.gtcomp,
                                  extend |-> 0, sizemin |-> 2]
    \* matrices of every ranking, matrices with a repeated record and, for the
    \* genotype-aware picker, matrices of every allele count
    /\ \/ ChunkIn(FullShapes, PlainSims \cup TieSims, {1}, {2}, {TRUE})
       \/ DupChunkIn(PlainSims, {2}, {TRUE})
       \/ Picker(params) = "gtcomp"
          /\ \/ ChunkIn(FullShapes, PlainSims \cup TieSims, GtCounts, {2}, {TRUE})
             \/ DupGtChunkIn(PlainSims, GtCounts)
    /\ ret = <<>> /\ handed = <<>> /\ calls = 0 /\ output = NoOutput
    /\ TrfIdle

NextPick == CompareChunkMulti \/ CompareChunkGtcomp \/ CompareChunkSingle

SpecPick == InitPick /\ [][NextPick]_vars

(***************************************************************************)
(* Bench.run on one chunk of the stream                                    *)
(***************************************************************************)
\* run_filter without the test of the state: any comp outside goes.
run_filter_any_state(match, extend) ==
    IF extend # 0 /\ match.comp # None /\ ~match.comp.inc
    THEN [match EXCEPT !.comp = None]
    ELSE match

\* run_filter with the test left out: every comp is kept.
run_filter_none(match, extend) == match

\* The test of the run loop before each write_match: with extend set, an
\* unmatched comp outside the original include regions is set to None.
run_filter(match, extend) ==
    IF extend # 0 /\ match.comp # None /\ ~match.state /\ ~match.comp.inc
    THEN [match EXCEPT !.comp = None]
    ELSE match

\* BenchOutput(self, matcher): the directory is made and the files opened.
RunStart ==
    /\ pc = "run"
    /\ output' = BenchOutput
    /\ pc' = "chunk"
    /\ UNCHANGED <<args, errors, exit_code, params, chunk, ret, handed, calls>>
    /\ UNCHANGED trf_vars

\* One pass of the for loop of Bench.run.
WriteNext ==
    /\ pc = "write"
    /\ calls < Len(ret)
    /\ LET match == run_filter(ret[calls + 1], params.extend)
       IN  /\ handed' = Append(handed, match)
           /\ output' = write_match(output, match, params.sizemin)
    /\ calls' = calls + 1
    /\ UNCHANGED <<pc, args, errors, exit_code, params, chunk, ret>>
    /\ UNCHANGED trf_vars

\* The stream is spent: summary.json is written and the outputs are closed.
RunFinish ==
    /\ pc = "write"
    /\ calls = Len(ret)
    /\ output' = [output EXCEPT !.stats_box = calc_performance(@)]
    /\ pc' = "done"
    /\ exit_code' = 0
    /\ UNCHANGED <<args, errors, params, chunk, ret, handed, calls>>
    /\ UNCHANGED trf_vars

Init ==
    /\ pc = "run"
    /\ args = NoArgs /\ errors = {} /\ exit_code = -1
    /\ \E m \in Modes, e \in {0, 1} :
         /\ params = [multimatch |-> m.multimatch, gtcomp |-> m.gtcomp,
                      extend |-> e, sizemin |-> 2]
         \* comps reach the run through the extended regions when extend is set
         /\ LET incs == IF e = 0 THEN {TRUE} ELSE BOOLEAN
            IN  \/ ChunkIn(Shapes, PlainSims, {1}, Sizes, incs)
                \/ DupChunkIn(PlainSims, Sizes, incs)
    /\ ret = <<>> /\ handed = <<>> /\ calls = 0 /\ output = NoOutput
    /\ TrfIdle

Next ==
    \/ RunStart
    \/ CompareChunkList
    \/ CompareChunkMulti
    \/ CompareChunkGtcomp
    \/ CompareChunkSingle
    \/ WriteNext
    \/ RunFinish

Spec == Init /\ [][Next]_vars

(***************************************************************************)
(* write_match on any MatchResults                                         *)
(***************************************************************************)
AnyMatches ==
    { [MatchResult EXCEPT !.base = b, !.comp = c, !.state = st, !.gt_match = g,
                          !.base_gt_count = 1, !.comp_gt_count = 1 + g] :
        b \in {None, Variant(1, 1, 2, TRUE, 1)},
        c \in {None} \cup { Variant(1, 1, z, TRUE, 1) : z \in Sizes },
        st \in BOOLEAN, g \in {0, 1} }

InitWrite ==
    /\ pc = "write"
    /\ args = NoArgs /\ errors = {} /\ exit_code = -1
    /\ params = [multimatch |-> FALSE, gtcomp |-> FALSE, extend |-> 0, sizemin |-> 2]
    /\ chunk = MakeChunk(0, 0, <<>>, <<>>, <<>>)
    /\ ret = <<>> /\ handed = <<>> /\ calls = 0 /\ output = BenchOutput
    /\ TrfIdle

\* One call of write_match; `handed` keeps the call's arguments.
WriteAny ==
    /\ pc = "write"
    /\ calls < MaxWrites
    /\ \E match \in AnyMatches, sizemin \in Sizes :
         /\ handed' = <<match, sizemin>>
         /\ output' = write_match(output, match, sizemin)
    /\ calls' = calls + 1
    /\ UNCHANGED <<pc, args, errors, exit_code, params, chunk, ret>>
    /\ UNCHANGED trf_vars

NextWrite == WriteAny

SpecWrite == InitWrite /\ [][NextWrite]_vars

(***************************************************************************)
(* bench_main: check_params, check_sample, check_inputs                    *)
(***************************************************************************)
\* A catalog as the checks see it: whether the file is there, whether its
\* name ends in .gz, whether its .tbi is there, how many sample columns its
\* header has; and the sample asked for: "none" (not given), "in" (a sample
\* of the header) or "out" (not one).
Catalogs == { c \in [exists : BOOLEAN, gz : BOOLEAN, tbi : BOOLEAN,
                     samples : {0, 1}, sample_id : {"none", "in", "out"}] :
                c.sample_id = "in" => c.samples > 0 }

\* An optional file argument: not given, given and there, given and missing.
OptFiles == {"none", "file", "missing"}

\* check_params: the checks that log an error; check_fail is that any did.
check_params(a) ==
    { e \in {"chunksize", "extend", "output", "comp_exists", "base_exists",
             "comp_gz", "comp_tbi", "base_gz", "base_tbi", "includebed", "reference"} :
        \/ e = "chunksize" /\ a.chunksize < a.refdist
        \/ e = "extend" /\ a.extend # 0 /\ a.includebed = "none"
        \/ e = "output" /\ a.output_isdir
        \/ e = "comp_exists" /\ ~a.comp.exists
        \/ e = "base_exists" /\ ~a.base.exists
        \/ e = "comp_gz" /\ ~a.comp.gz
        \/ e = "comp_tbi" /\ ~a.comp.tbi
        \/ e = "base_gz" /\ ~a.base.gz
        \/ e = "base_tbi" /\ ~a.base.tbi
        \/ e = "includebed" /\ a.includebed = "missing"
        \/ e = "reference" /\ a.reference = "missing" }

\* check_sample on catalog `c`, whose errors are named `who`_sample and
\* `who`_nosamples: the errors logged, and whether header.samples[0] raised
\* IndexError before the function could return.
check_sample(c, who) ==
    [errs   |-> (IF c.sample_id # "none" /\ c.sample_id # "in"
                 THEN {who \o "_sample"} ELSE {})
                \cup (IF c.samples = 0 THEN {who \o "_nosamples"} ELSE {}),
     raised |-> c.sample_id = "none" /\ c.samples = 0]

\* check_inputs: the base catalog, then the comp catalog unless the base
\* check raised.
check_inputs(a) ==
    LET b == check_sample(a.base, "base")
        c == check_sample(a.comp, "comp")
    IN  IF b.raised THEN [errs |-> b.errs, raised |-> TRUE]
        ELSE [errs |-> b.errs \cup c.errs, raised |-> c.raised]

\* bench_main up to the call of Bench.run: exit 100 when a check failed.
\* `check_params(args) or check_inputs(args)` runs check_inputs only when
\* check_params found nothing.
bench_main(a) ==
    LET p == check_params(a)
        i == check_inputs(a)
    IN  IF p # {} THEN [errors |-> p, pc |-> "exit", exit_code |-> 100]
        ELSE IF i.raised THEN [errors |-> i.errs, pc |-> "raised", exit_code |-> 1]
        ELSE IF i.errs # {} THEN [errors |-> i.errs, pc |-> "exit", exit_code |-> 100]
        ELSE [errors |-> {}, pc |-> "run", exit_code |-> -1]

BenchMain ==
    /\ pc = "main"
    /\ LET r == bench_main(args)
       IN  /\ errors' = r.errors
           /\ pc' = r.pc
           /\ exit_code' = r.exit_code
    /\ UNCHANGED <<args, params, chunk, ret, handed, calls, output>>
    /\ UNCHANGED trf_vars

InitMain ==
    /\ pc = "main"
    /\ args \in [chunksize : {1, 2}, refdist : {1, 2}, extend : {0, 1},
                 includebed : OptFiles, reference : OptFiles,
                 output_isdir : BOOLEAN, base : Catalogs, comp : Catalogs]
    /\ errors = {} /\ exit_code = -1
    /\ params = [multimatch |-> FALSE, gtcomp |-> FALSE,
                 extend |-> args.extend, sizemin |-> 2]
    /\ chunk = MakeChunk(1, 1, <<<<CHOOSE x \in PlainSims : x.state>>>>, <<1>>,
                         <<[size |-> 2, inc |-> TRUE, gt |-> 1]>>)
    /\ ret = <<>> /\ handed = <<>> /\ calls = 0 /\ output = NoOutput
    /\ TrfIdle

\* bench_main from the command line to its end: the checks, then the run.
NextMain ==
    \/ BenchMain
    \/ RunStart
    \/ CompareChunkSingle
    \/ WriteNext
    \/ RunFinish

SpecMain == InitMain /\ [][NextMain]_vars

(***************************************************************************)
(* trf: numbers                                                            *)
(***************************************************************************)
\* A float is kept as the exact fraction <<numerator, denominator>> with a
\* positive denominator.
FracLt(a, b) == a[1] * b[2] < b[1] * a[2]

IntMin(a, b) == IF a < b THEN a ELSE b
IntMax(a, b) == IF a > b THEN a ELSE b

\* round(x, ndigits) as a count of units of 10^-ndigits, `unit` = 10^ndigits:
\* the nearest count, a half going to the even one.
Round(x, unit) ==
    LET n == x[1] * unit
        q == n \div x[2]
        r == n - q * x[2]
    IN  IF 2 * r < x[2] THEN q
        ELSE IF 2 * r > x[2] THEN q + 1
        ELSE IF q % 2 = 0 THEN q ELSE q + 1

\* truvari.overlap_percent: the reciprocal overlap of two intervals, the
\* overlap over the longer span, 0 when they do not overlap.
overlap_percent(astart, aend, bstart, bend) ==
    LET ovl == IntMin(aend, bend) - IntMax(astart, bstart)
        span == IntMax(aend - astart, bend - bstart)
    IN  IF ovl <= 0 \/ span <= 0 THEN <<0, 1>> ELSE <<ovl, span>>

(***************************************************************************)
(* trf: compare_scores and scores.sort(reverse=True, key=score_sorter)     *)
(***************************************************************************)
\* compare_scores(a, b): the value returned and b as the call leaves it.
\* `bspan = b['end'] = b['start']` gives bspan the start of b and sets b's end
\* to its start.
compare_scores(a, b) ==
    IF FracLt(b.ovl_pct, a.ovl_pct) THEN [ret |-> 1, b |-> b]
    ELSE IF FracLt(a.ovl_pct, b.ovl_pct) THEN [ret |-> -1, b |-> b]
    ELSE IF a.score > b.score THEN [ret |-> 1, b |-> b]
    ELSE IF a.score < b.score THEN [ret |-> -1, b |-> b]
    ELSE LET aspan == a.end - a.start
             bspan == b.start
         IN  [ret |-> IF aspan > bspan THEN 1 ELSE IF aspan < bspan THEN -1 ELSE 0,
              b   |-> [b EXCEPT !.end = b.start]]

Reverse(seq) == [i \in 1..Len(seq) |-> seq[Len(seq) + 1 - i]]

\* key(x) < key(y) under cmp_to_key(compare_scores), x and y places in the
\* list `objs` of dicts: the answer and the dicts after the call.
islt_of(objs, y, c) == [lt |-> c.ret < 0, objs |-> [objs EXCEPT ![y] = c.b]]

islt(objs, x, y) == islt_of(objs, y, compare_scores(objs[x], objs[y]))

\* list.sort, count_run: the loop that extends the first run from place k,
\* c the comparison of ord[k] with ord[k - 1].
RECURSIVE count_run_from(_, _, _, _)
RECURSIVE count_run_step(_, _, _, _)
count_run_step(ord, k, desc, c) ==
    IF c.lt = desc THEN count_run_from(ord, c.objs, k + 1, desc)
    ELSE [n |-> k - 1, desc |-> desc, objs |-> c.objs]

count_run_from(ord, objs, k, desc) ==
    IF k > Len(ord) THEN [n |-> Len(ord), desc |-> desc, objs |-> objs]
    ELSE count_run_step(ord, k, desc, islt(objs, ord[k], ord[k - 1]))

\* list.sort, count_run: the run goes on from the third place, descending
\* when the second element is less than the first.
count_run_first(ord, c) == count_run_from(ord, c.objs, 3, c.lt)

\* list.sort, count_run: the length of the first run and whether it descends.
count_run(ord, objs) ==
    IF Len(ord) <= 1 THEN [n |-> Len(ord), desc |-> FALSE, objs |-> objs]
    ELSE count_run_first(ord, islt(objs, ord[2], ord[1]))

\* list.sort, binarysort: the place of `pivot` among ord[l..r-1], c the
\* comparison of the pivot with ord[p].
RECURSIVE bisect(_, _, _, _, _)
RECURSIVE bisect_half(_, _, _, _, _, _)
bisect_half(ord, pivot, l, r, p, c) ==
    IF c.lt THEN bisect(ord, c.objs, pivot, l, p)
    ELSE bisect(ord, c.objs, pivot, p + 1, r)

bisect(ord, objs, pivot, l, r) ==
    IF l >= r THEN [l |-> l, objs |-> objs]
    ELSE bisect_half(ord, pivot, l, r, l + ((r - l) \div 2),
                     islt(objs, pivot, ord[l + ((r - l) \div 2)]))

\* list.sort, binarysort: ord[start] moved to place l, those between moved up.
insert(ord, l, start) ==
    [i \in 1..Len(ord) |->
        IF i < l THEN ord[i]
        ELSE IF i = l THEN ord[start]
        ELSE IF i <= start THEN ord[i - 1]
        ELSE ord[i]]

\* list.sort, binarysort: insert ord[start..] one by one into the sorted run.
RECURSIVE binarysort(_, _, _)
RECURSIVE binarysort_insert(_, _, _)
binarysort_insert(ord, start, b) ==
    binarysort(insert(ord, b.l, start), b.objs, start + 1)

binarysort(ord, objs, start) ==
    IF start > Len(ord) THEN [ord |-> ord, objs |-> objs]
    ELSE binarysort_insert(ord, start, bisect(ord, objs, ord[start], 1, start))

\* list.sort: a descending first run is reversed in place, then the rest is
\* inserted into it.
sort_run(ids, run) ==
    binarysort(IF run.desc
               THEN Reverse(SubSeq(ids, 1, run.n)) \o SubSeq(ids, run.n + 1, Len(ids))
               ELSE ids,
               run.objs, run.n + 1)

\* list.sort on the reversed list `ids` of places of `scores`.
sort_ids(ids, scores) == sort_run(ids, count_run(ids, scores))

\* The sorted list of dicts, reversed again.
sorted_reverse(n, s) == Reverse([i \in 1..n |-> s.objs[s.ord[i]]])

\* scores.sort(reverse=True, key=score_sorter) on a list shorter than 64: the
\* list is reversed, sorted by binary insertion after its first run, and
\* reversed again; the dicts are those the comparisons left.
sort_reverse(scores) ==
    sorted_reverse(Len(scores), sort_ids(Reverse([i \in 1..Len(scores) |-> i]), scores))

(***************************************************************************)
(* trf: TRFAnno                                                            *)
(***************************************************************************)
\* Python's None where an annotator returns no motif.
NoRepeat == [repeat |-> "None"]

\* TRFAnno.__init__: known_motifs, repeat -> copies, a later anno of the same
\* repeat replacing an earlier one.
known_motifs(region) ==
    [rep \in { region.annos[i].repeat : i \in DOMAIN region.annos } |->
        LET last == CHOOSE i \in DOMAIN region.annos :
                       /\ region.annos[i].repeat = rep
                       /\ \A j \in DOMAIN region.annos :
                             region.annos[j].repeat = rep => j <= i
        IN  region.annos[last].copies]

\* TRFAnno.run_trf: no hits when the tool's return code is not 0, else the
\* parsed hits moved by the region's start.
run_trf(tool, region) ==
    IF tool.ret_code # 0 THEN <<>>
    ELSE [i \in DOMAIN tool.hits |->
             [tool.hits[i] EXCEPT !.start = @ + region.start,
                                  !.end = @ + region.start]]

\* TRFAnno.score_annotation: the anno with ovl_pct and diff, that is kept
\* only when ovl_pct > 0.
score_annotation(var_start, var_end, anno, region) ==
    [ovl_pct |-> overlap_percent(var_start, var_end, anno.start, anno.end),
     diff    |-> IF anno.repeat \in DOMAIN known_motifs(region)
                 THEN <<anno.copies - known_motifs(region)[anno.repeat], 1>>
                 ELSE <<0, 1>>] @@ anno

\* `if scores: return scores[0]`, `return None`
first_score(scores) == IF scores # <<>> THEN scores[1] ELSE NoRepeat

\* del_annotator: the dict m_sc of an anno with the overlap ovl_pct.
del_score(anno, svlen, ovl_pct) ==
    [ovl_pct |-> ovl_pct,
     diff |-> <<-(ovl_pct[1] * svlen), ovl_pct[2] * anno.period>>] @@ anno

\* TRFAnno.del_annotator
del_annotator(entry, svlen, region) ==
    first_score(sort_reverse(SelectSeq(
        [i \in DOMAIN region.annos |->
            del_score(region.annos[i], svlen,
                      overlap_percent(entry.start, entry.stop,
                                      region.annos[i].start, region.annos[i].end))],
        LAMBDA m : m.ovl_pct[1] # 0)))

\* ins_annotator: the hits scored against the variant.
ins_scores(entry, annos, region) ==
    [i \in DOMAIN annos |->
        score_annotation(entry.start, entry.stop, annos[i], region)]

\* TRFAnno.ins_annotator
ins_annotator(entry, region) ==
    first_score(sort_reverse(SelectSeq(
        ins_scores(entry, run_trf(entry.tool, region), region),
        LAMBDA m : m.ovl_pct[1] > 0)))

\* annotate: `if repeat:` and the fields set from it; TRFovl in thousandths,
\* TRFdiff in tenths.
attach(repeat) ==
    IF repeat = NoRepeat THEN [TRF |-> TRUE]
    ELSE [TRF |-> TRUE,
          TRFovl |-> Round(repeat.ovl_pct, 1000),
          TRFdiff |-> Round(repeat.diff, 10),
          TRFperiod |-> repeat.period,
          TRFcopies |-> repeat.copies,
          TRFscore |-> repeat.score,
          TRFentropy |-> repeat.entropy,
          TRFrepeat |-> repeat.repeat]

\* annotate without the test of the entry's size.
annotate_any_size(entry, min_length, region) ==
    attach(IF entry.svtype = "DEL" THEN del_annotator(entry, entry.size, region)
           ELSE IF entry.svtype = "INS" THEN ins_annotator(entry, region)
           ELSE NoRepeat)

\* TRFAnno.annotate: the entry's info fields after the call.
annotate(entry, min_length, region) ==
    IF entry.size < min_length THEN [TRF |-> TRUE]
    ELSE attach(IF entry.svtype = "DEL" THEN del_annotator(entry, entry.size, region)
                ELSE IF entry.svtype = "INS" THEN ins_annotator(entry, region)
                ELSE NoRepeat)

(***************************************************************************)
(* trf: process_tr_region                                                  *)
(***************************************************************************)
\* "Variants must be entirely contained within region"
contained(entry, region) == entry.start >= region.start /\ entry.stop < region.end

\* vcf.fetch(chrom, start, end): the records that overlap the interval.
fetch(catalog, region) ==
    SelectSeq(catalog, LAMBDA e : e.start < region.end /\ e.stop > region.start)

\* The entry makes ins_annotator call the repeat tool and the call fails.
tool_fails(entry, min_length) ==
    entry.svtype = "INS" /\ entry.size >= min_length /\ entry.tool.ret_code # 0

\* process_tr_region giving up its buffer when a call of the tool failed.
process_tr_region_abort(region, catalog, min_length) ==
    LET to_consider == IF region.fetch_ok
                       THEN SelectSeq(fetch(catalog, region),
                                      LAMBDA e : contained(e, region))
                       ELSE <<>>
    IN  IF \E i \in DOMAIN to_consider : tool_fails(to_consider[i], min_length)
        THEN <<>>
        ELSE [i \in DOMAIN to_consider |->
                 [id |-> to_consider[i].id,
                  info |-> annotate(to_consider[i], min_length, region)]]

\* process_tr_region: the buffer returned, one annotated record for each
\* fetched variant the region contains; nothing when the fetch raised
\* ValueError.
process_tr_region(region, catalog, min_length) ==
    LET to_consider == IF region.fetch_ok
                       THEN SelectSeq(fetch(catalog, region),
                                      LAMBDA e : contained(e, region))
                       ELSE <<>>
    IN  [i \in DOMAIN to_consider |->
            [id |-> to_consider[i].id,
             info |-> annotate(to_consider[i], min_length, region)]]

(***************************************************************************)
(* trf: trf_main, the coordinator and its pool                             *)
(***************************************************************************)
\* m_lookup[entry.chrom][entry.start:entry.stop] and the test of each hit.
has_hit(entry, regions) ==
    \E i \in DOMAIN regions :
       /\ regions[i].start < entry.stop /\ regions[i].end > entry.start
       /\ entry.start >= regions[i].start /\ entry.stop < regions[i].end

Running == { r \in DOMAIN tasks : tasks[r].status = "running" }

\* bench is not running.
BenchIdle ==
    /\ pc = "idle"
    /\ args = NoArgs /\ errors = {} /\ exit_code = -1
    /\ params = [multimatch |-> FALSE, gtcomp |-> FALSE, extend |-> 0, sizemin |-> 2]
    /\ chunk = MakeChunk(0, 0, <<>>, <<>>, <<>>)
    /\ ret = <<>> /\ handed = <<>> /\ calls = 0 /\ output = NoOutput

\* fout.write(str(new_header))
WriteHeader ==
    /\ tpc.at = "header"
    /\ fout' = <<[kind |-> "header"]>>
    /\ tpc' = [at |-> "scan", k |-> 1]
    /\ UNCHANGED <<job, tasks, arrived>>
    /\ UNCHANGED bench_vars

\* One pass of `for entry in vcf`: the entry is written unless a region
\* contains it.
ScanEntry ==
    /\ tpc.at = "scan"
    /\ tpc.k <= Len(job.catalog)
    /\ LET entry == job.catalog[tpc.k]
       IN  fout' = IF has_hit(entry, job.regions) THEN fout
                   ELSE Append(fout, [kind |-> "entry", id |-> entry.id])
    /\ tpc' = [tpc EXCEPT !.k = @ + 1]
    /\ UNCHANGED <<job, tasks, arrived>>
    /\ UNCHANGED bench_vars

\* The catalog is spent: "Now collect the others".
ScanEnd ==
    /\ tpc.at = "scan"
    /\ tpc.k > Len(job.catalog)
    /\ tpc' = [at |-> "collect", k |-> 0]
    /\ UNCHANGED <<job, tasks, arrived, fout>>
    /\ UNCHANGED bench_vars

\* The pool gives the next region of m_regions to a free worker.
StartRegion ==
    /\ tpc.at \in {"header", "scan", "collect"}
    /\ \E r \in DOMAIN tasks :
          /\ tasks[r].status = "queued"
          /\ \A q \in 1..(r - 1) : tasks[q].status # "queued"
          /\ Cardinality(Running) < job.threads
          /\ tasks' = [tasks EXCEPT ![r].status = "running"]
    /\ UNCHANGED <<job, arrived, fout, tpc>>
    /\ UNCHANGED bench_vars

\* A worker returns from process_tr_region: its buffer arrives.
FinishRegion ==
    /\ \E r \in Running :
          /\ tasks' = [tasks EXCEPT
                          ![r].status = "done",
                          ![r].buffer = process_tr_region(job.regions[r], job.catalog,
                                                          job.min_length)]
          /\ arrived' = Append(arrived, r)
    /\ UNCHANGED <<job, fout, tpc>>
    /\ UNCHANGED bench_vars

\* Collect with the coordinator taking a buffer as soon as it has arrived.
Collect_on_arrival ==
    /\ tpc.at \in {"scan", "collect"}
    /\ LET n == Cardinality({ i \in DOMAIN fout : fout[i].kind = "buffer" })
       IN  /\ n < Len(arrived)
           /\ fout' = Append(fout, [kind |-> "buffer", region |-> arrived[n + 1],
                                    entries |-> tasks[arrived[n + 1]].buffer])
    /\ tpc' = IF tpc.at = "collect" THEN [tpc EXCEPT !.k = @ + 1] ELSE tpc
    /\ UNCHANGED <<job, tasks, arrived>>
    /\ UNCHANGED bench_vars

\* One pass of `for i in chunks`: the next buffer that arrived is written.
Collect ==
    /\ tpc.at = "collect"
    /\ tpc.k < Len(arrived)
    /\ fout' = Append(fout, [kind |-> "buffer", region |-> arrived[tpc.k + 1],
                             entries |-> tasks[arrived[tpc.k + 1]].buffer])
    /\ tpc' = [tpc EXCEPT !.k = @ + 1]
    /\ UNCHANGED <<job, tasks, arrived>>
    /\ UNCHANGED bench_vars

\* Every region's buffer is written: the file is closed, the pool joined.
TrfFinish ==
    /\ tpc.at = "collect"
    /\ tpc.k = Len(job.regions)
    /\ tpc' = [at |-> "done", k |-> tpc.k]
    /\ UNCHANGED <<job, tasks, arrived, fout>>
    /\ UNCHANGED bench_vars

NextTrf ==
    \/ WriteHeader
    \/ ScanEntry
    \/ ScanEnd
    \/ StartRegion
    \/ FinishRegion
    \/ Collect
    \/ TrfFinish

(***************************************************************************)
(* trf: the catalogs and regions the runs are given                        *)
(***************************************************************************)
Motif(rep, s, e, sc) ==
    [repeat |-> rep, copies |-> 50, period |-> 2, start |-> s, end |-> e,
     score |-> sc, entropy |-> 1]

\* The motif of the region chr1 100-200: AT, 50 copies, period 2, score 400.
MotifAT == Motif("AT", 100, 200, 400)

\* Known motifs around a variant at 120-160, two of them (130-190 and 100-180)
\* with the same reciprocal overlap and different spans.
Motifs ==
    { Motif(rep, se[1], se[2], sc) :
        rep \in {"AT", "GC"}, se \in {<<130, 190>>, <<100, 180>>, <<100, 200>>},
        sc \in {400, 500} }

\* Hits of the repeat tool on the ALT haplotype, in its coordinates.
Hits ==
    { [Motif(rep, se[1], se[2], sc) EXCEPT !.copies = cp] :
        rep \in {"AT", "GC"}, se \in {<<40, 60>>, <<30, 70>>}, sc \in {400},
        cp \in {50, 52} }

\* The sequences over S of length at most n.
SeqsUpTo(S, n) == UNION { [1..k -> S] : k \in 0..n }

NoTool == [ret_code |-> 0, hits |-> <<>>]

Entry(i, s, e, ty, sz, tl) ==
    [id |-> i, start |-> s, stop |-> e, svtype |-> ty, size |-> sz, tool |-> tl]

\* The tool ran and reported `hits`, or it failed.
Tools(hits) == { [ret_code |-> 0, hits |-> h] : h \in hits } \cup { [ret_code |-> 1, hits |-> <<>>] }

\* The records a catalog is made of: deletions inside and outside the
\* regions, below and above the default minimum length, and an insertion.
EntryKinds ==
    { Entry(0, 120, 160, "DEL", 40, NoTool),
      Entry(0, 110, 190, "DEL", 80, NoTool),
      Entry(0, 300, 310, "DEL", 60, NoTool) }
    \cup { Entry(0, 150, 151, "INS", 60, tl) :
             tl \in Tools({<<[MotifAT EXCEPT !.start = 40, !.end = 60]>>}) }

\* A sorted catalog: records numbered as they come, starts not decreasing.
Catalogue(kinds) ==
    [i \in DOMAIN kinds |-> [kinds[i] EXCEPT !.id = i]]

RegionKinds ==
    { [start |-> se[1], end |-> se[2], annos |-> an, fetch_ok |-> ok] :
        se \in {<<100, 200>>, <<90, 210>>}, an \in {<<MotifAT>>}, ok \in BOOLEAN }

InitTrf ==
    /\ BenchIdle
    /\ \E kinds \in SeqsUpTo(EntryKinds, MaxEntries), regions \in SeqsUpTo(RegionKinds, MaxRegions),
          threads \in 1..MaxThreads :
          /\ Len(kinds) >= 1
          /\ \A i, j \in DOMAIN kinds : i < j => kinds[i].start <= kinds[j].start
          /\ job = [catalog |-> Catalogue(kinds), regions |-> regions,
                    threads |-> threads, min_length |-> 50]
          /\ tasks = [r \in DOMAIN regions |-> [status |-> "queued", buffer |-> <<>>]]
    /\ arrived = <<>> /\ fout = <<>>
    /\ tpc = [at |-> "header", k |-> 0]

\* trf_main on a catalog and a set of regions.
SpecTrf == InitTrf /\ [][NextTrf]_vars

\* One region 100-200 and one variant in it, with every list of known motifs
\* and every outcome of the tool.
InitAnno ==
    /\ BenchIdle
    /\ \E min_length \in {40, 50} :
          \/ \E annos \in SeqsUpTo(Motifs, MaxMotifs), sz \in {40, 60} :
                job = [catalog |-> Catalogue(<<Entry(0, 120, 160, "DEL", sz, NoTool)>>),
                       regions |-> <<[start |-> 100, end |-> 200, annos |-> annos,
                                      fetch_ok |-> TRUE]>>,
                       threads |-> 1, min_length |-> min_length]
          \/ \E annos \in SeqsUpTo({MotifAT}, 1), tl \in Tools(SeqsUpTo(Hits, MaxMotifs)) :
                job = [catalog |-> Catalogue(<<Entry(0, 150, 151, "INS", 60, tl)>>),
                       regions |-> <<[start |-> 100, end |-> 200, annos |-> annos,
                                      fetch_ok |-> TRUE]>>,
                       threads |-> 1, min_length |-> min_length]
    /\ tasks = <<[status |-> "queued", buffer |-> <<>>]>>
    /\ arrived = <<>> /\ fout = <<>>
    /\ tpc = [at |-> "header", k |-> 0]

\* trf_main on one variant of one region: TRFAnno.annotate on every input.
SpecAnno == InitAnno /\ [][NextTrf]_vars

(***************************************************************************)
(* Properties of trf_main (SpecTrf)                                        *)
(***************************************************************************)
\* How many times the output file holds the variant `id`.
Written(id) ==
    Cardinality({ i \in DOMAIN fout : fout[i].kind = "entry" /\ fout[i].id = id })
    + Cardinality({ <<i, j>> \in (DOMAIN fout) \X (1..MaxEntries + 1) :
                      /\ fout[i].kind = "buffer"
                      /\ j \in DOMAIN fout[i].entries
                      /\ fout[i].entries[j].id = id })

\* C13: when trf_main has finished, every variant of the input is in the
\* output exactly once, whatever the regions (two regions containing the same
\* variant, a region whose fetch fails), the number of workers and the order
\* in which they finish.
C13_WrittenExactlyOnce ==
    tpc.at = "done" => \A i \in DOMAIN job.catalog : Written(job.catalog[i].id) = 1

\* The positions of the output file that hold an item of the kind.
Of(kind) == { i \in DOMAIN fout : fout[i].kind = kind }

\* The variants no region contains, in the order of the input.
NotConsidered == SelectSeq(job.catalog, LAMBDA e : ~has_hit(e, job.regions))

C14_Order ==
    /\ fout # <<>> => Of("header") = {1}
    /\ \A i \in Of("entry") : \A j \in Of("buffer") : i < j
    /\ \A i \in Of("entry") : fout[i].id = NotConsidered[i - 1].id
    /\ Of("buffer") # {} => Cardinality(Of("entry")) = Len(NotConsidered)
    /\ \A j \in Of("buffer") :
          LET n == j - 1 - Cardinality(Of("entry"))
          IN  /\ n \in DOMAIN arrived
              /\ fout[j].region = arrived[n]
              /\ fout[j].entries = tasks[arrived[n]].buffer
    /\ tpc.at = "done" => Cardinality(Of("buffer")) = Len(job.regions)

\* C14: the output file holds the header, then every variant no region
\* contains (in input order), then the region buffers in the order in which
\* they arrived from the workers; no buffer is written before the last of the
\* variants outside the regions, and a step of a worker never writes to the
\* file.
C14_HeaderVariantsBuffers ==
    /\ []C14_Order
    /\ [][tasks' # tasks => fout' = fout]_vars

\* Two workers finished in the reverse of the region order, and the file
\* holds a variant outside the regions followed by their two buffers.
C14_Witness ==
    /\ tpc.at = "done"
    /\ arrived = <<2, 1>>
    /\ Of("entry") # {}
    /\ \E j \in Of("buffer") : fout[j].entries # <<>>

\* The variants of the catalog the region contains, in input order.
InRegion(region) == SelectSeq(job.catalog, LAMBDA e : contained(e, region))

\* C17: when the repeat tool fails for an insertion, run_trf returns no
\* annotations and the insertion gets TRF and no other TRF field; the buffer
\* of its region still holds it and every other variant the region contains,
\* those annotated as they are without the failure, and every region's buffer
\* is in the output when trf_main ends.
C17_ToolFailureTolerated ==
    /\ \A r \in DOMAIN tasks :
          tasks[r].status = "done" /\ job.regions[r].fetch_ok =>
             LET region == job.regions[r]
                 buffer == tasks[r].buffer
             IN  /\ Len(buffer) = Len(InRegion(region))
                 /\ \A k \in DOMAIN buffer :
                       LET entry == InRegion(region)[k]
                       IN  /\ buffer[k].id = entry.id
                           /\ IF tool_fails(entry, job.min_length)
                              THEN /\ run_trf(entry.tool, region) = <<>>
                                   /\ buffer[k].info = [TRF |-> TRUE]
                              ELSE buffer[k].info = annotate(entry, job.min_length, region)
    /\ tpc.at = "done" =>
          \A r \in DOMAIN tasks :
             \E j \in Of("buffer") :
                fout[j].region = r /\ fout[j].entries = tasks[r].buffer

\* The output is complete; a buffer of it holds an insertion the tool failed
\* for, with TRF alone, followed by a variant annotated with a motif, and
\* another region's buffer holds variants too.
C17_Witness ==
    /\ tpc.at = "done"
    /\ \E j, h \in Of("buffer") :
          /\ j # h
          /\ fout[h].entries # <<>>
          /\ Len(fout[j].entries) = 2
          /\ tool_fails(job.catalog[fout[j].entries[1].id], job.min_length)
          /\ fout[j].entries[1].info = [TRF |-> TRUE]
          /\ "TRFrepeat" \in DOMAIN fout[j].entries[2].info

(***************************************************************************)
(* Properties of the annotators (SpecAnno)                                 *)
(***************************************************************************)
\* The annotated records of the buffers in the output file, each with the
\* region it was annotated in.
Annotated ==
    UNION { { [rec |-> fout[j].entries[k], region |-> job.regions[fout[j].region]] :
                k \in DOMAIN fout[j].entries } : j \in Of("buffer") }

\* The motifs an annotator ranks for the entry: the region's known motifs for
\* a deletion, the tool's hits for an insertion, those with a positive
\* reciprocal overlap.
Candidates(entry, region) ==
    LET annos == IF entry.svtype = "DEL" THEN region.annos
                 ELSE run_trf(entry.tool, region)
    IN  { m \in { annos[i] : i \in DOMAIN annos } :
            overlap_percent(entry.start, entry.stop, m.start, m.end)[1] > 0 }

\* a ranks strictly above b under (ovl_pct, score, span).
RanksAbove(entry, a, b) ==
    LET oa == overlap_percent(entry.start, entry.stop, a.start, a.end)
        ob == overlap_percent(entry.start, entry.stop, b.start, b.end)
    IN  \/ FracLt(ob, oa)
        \/ oa[1] * ob[2] = ob[1] * oa[2] /\ a.score > b.score
        \/ oa[1] * ob[2] = ob[1] * oa[2] /\ a.score = b.score
              /\ a.end - a.start > b.end - b.start

\* The info fields carry the motif m.
Attached(info, entry, m) ==
    /\ DOMAIN info = {"TRF", "TRFovl", "TRFdiff", "TRFperiod", "TRFcopies",
                      "TRFscore", "TRFentropy", "TRFrepeat"}
    /\ info.TRFrepeat = m.repeat /\ info.TRFcopies = m.copies
    /\ info.TRFperiod = m.period /\ info.TRFscore = m.score
    /\ info.TRFentropy = m.entropy
    /\ info.TRFovl = Round(overlap_percent(entry.start, entry.stop, m.start, m.end), 1000)

\* The records of the buffers that an annotator ranked motifs for.
Ranked ==
    { a \in Annotated :
        LET entry == job.catalog[a.rec.id]
        IN  /\ entry.svtype \in {"DEL", "INS"}
            /\ entry.size >= job.min_length
            /\ Candidates(entry, a.region) # {} }

\* C15: del_annotator and ins_annotator attach a motif that no candidate
\* ranks above under (ovl_pct descending, score descending, span descending):
\* of two candidates with the same ovl_pct and score, the one with the larger
\* span.
C15_MaximalMotifAttached ==
    \A a \in Ranked :
       LET entry == job.catalog[a.rec.id]
       IN  \E m \in Candidates(entry, a.region) :
              /\ \A o \in Candidates(entry, a.region) : ~RanksAbove(entry, o, m)
              /\ Attached(a.rec.info, entry, m)

\* The annotated deletions of the buffers.
Deletions == { a \in Annotated : job.catalog[a.rec.id].svtype = "DEL" }

\* -(ovl_pct * svlen) / period for the motif m, rounded to tenths.
DelDiff(entry, m) ==
    LET ovl_pct == overlap_percent(entry.start, entry.stop, m.start, m.end)
    IN  Round(<<-(ovl_pct[1] * entry.size), ovl_pct[2] * m.period>>, 10)

\* The region chr1 100-200 with the one motif AT and the deletion 120-160 of
\* length 40.
Scenario6(a) ==
    /\ a.region = [start |-> 100, end |-> 200, annos |-> <<MotifAT>>, fetch_ok |-> TRUE]
    /\ job.catalog[a.rec.id] = Entry(a.rec.id, 120, 160, "DEL", 40, NoTool)

\* No candidate beats m on ovl_pct and then score (the span tie-break is the
\* subject of C15).
Top(entry, cands, m) ==
    \A o \in cands :
       LET om == overlap_percent(entry.start, entry.stop, m.start, m.end)
           oo == overlap_percent(entry.start, entry.stop, o.start, o.end)
       IN  /\ ~FracLt(om, oo)
           /\ oo[1] * om[2] = om[1] * oo[2] => o.score <= m.score

C1_CountsAddUp ==
    /\ output.stats_box.TP_base + output.stats_box.FN = output.stats_box.base_cnt
    /\ output.stats_box.TP_comp + output.stats_box.FP = output.stats_box.comp_cnt

\* C1 witness: true and false results on both sides have been counted and a
\* comp below sizemin has been passed over.
C1_Witness ==
    /\ calls = MaxWrites
    /\ output.stats_box.TP_base > 0 /\ output.stats_box.FN > 0
    /\ output.stats_box.TP_comp > 0 /\ output.stats_box.FP > 0

\* The call just made was given a comp below sizemin.
SmallCompWritten ==
    /\ calls' = calls + 1
    /\ handed'[1].comp # None
    /\ handed'[1].comp.size < handed'[2]

\* What a state = true call does with its comp.
CompCountedTrue ==
    /\ output'.tpc_out = Append(output.tpc_out, handed'[1].comp.id)
    /\ output'.stats_box.TP_comp = output.stats_box.TP_comp + 1
    /\ output'.stats_box.comp_cnt = output.stats_box.comp_cnt + 1

\* C8 as claimed: a call with a comp below sizemin and state = false writes
\* nothing to fp and leaves every counter as it was; with state = true the
\* comp goes to tp-comp and TP-comp and comp cnt go up by one.
C8_Original ==
    [][ SmallCompWritten =>
          IF handed'[1].state
          THEN CompCountedTrue
          ELSE /\ output'.fp_out = output.fp_out
               /\ output'.stats_box = output.stats_box ]_vars

\* C8 as amended: with state = false the comp is not written and FP, comp cnt,
\* TP-comp and the comp genotype counters stay; the whole stats box stays only
\* when the MatchResult has no base, and with a base present base cnt and FN
\* go up by one and the base is written to fn.  With state = true as claimed.
C8_Amended ==
    [][ SmallCompWritten =>
          IF handed'[1].state
          THEN CompCountedTrue
          ELSE /\ output'.fp_out = output.fp_out
               /\ output'.tpc_out = output.tpc_out
               /\ output'.stats_box.FP = output.stats_box.FP
               /\ output'.stats_box.comp_cnt = output.stats_box.comp_cnt
               /\ output'.stats_box.TP_comp = output.stats_box.TP_comp
               /\ output'.stats_box.TP_comp_TP_gt = output.stats_box.TP_comp_TP_gt
               /\ output'.stats_box.TP_comp_FP_gt = output.stats_box.TP_comp_FP_gt
               /\ IF handed'[1].base = None
                  THEN output' = output
                  ELSE /\ output'.stats_box =
                            [output.stats_box EXCEPT !.base_cnt = @ + 1, !.FN = @ + 1]
                       /\ output'.fn_out = Append(output.fn_out, handed'[1].base.id)
                       /\ output'.tpb_out = output.tpb_out ]_vars

\* C8 witness: a call with a base, a comp below sizemin and state = false was
\* made: the base was counted FN, the comp was not counted.
C8_Witness ==
    /\ calls > 0
    /\ handed[1].base # None /\ handed[1].comp # None
    /\ handed[1].comp.size < handed[2]
    /\ ~handed[1].state
    /\ output.stats_box.FN = calls /\ output.stats_box.comp_cnt = 0

(***************************************************************************)
(* Properties of the pickers (SpecPick)                                    *)
(***************************************************************************)
\* The matrix compare_chunk builds of the chunk.
TheMatrix == build_matrix(chunk.base, chunk.comp, chunk.sim)

Picked == pc = "write"

HasSide(m) == m.base # None \/ m.comp # None

\* The stats box and files after write_match on each of `rets` in turn.
RECURSIVE WriteAll(_, _, _)
WriteAll(out, rets, sizemin) ==
    IF rets = <<>> THEN out
    ELSE WriteAll(write_match(out, Head(rets), sizemin), Tail(rets), sizemin)

Tally == WriteAll(BenchOutput, ret, params.sizemin)

Range(f) == { f[i] : i \in DOMAIN f }

\* C3: every MatchResult a picker returns has a base or a comp.
C3_PickedHasSide ==
    Picked => \A i \in DOMAIN ret : HasSide(ret[i])

\* C3 witness: the genotype-aware picker came to a pair whose two sides had
\* both contributed before and were both not yet full, and returned without it.
C3_Witness ==
    /\ Picked
    /\ Picker(params) = "gtcomp"
    /\ Len(chunk.base) = 2 /\ Len(chunk.comp) = 2
    /\ chunk.base[1].gt = 2 /\ chunk.comp[1].gt = 1
    /\ chunk.base[2].gt = 1 /\ chunk.comp[2].gt = 2
    /\ \A b \in 1..2, c \in 1..2 : chunk.sim[b][c].state
    /\ MatchLt(chunk.sim[1][2], chunk.sim[1][1])
    /\ MatchLt(chunk.sim[1][2], chunk.sim[2][2])
    /\ Len(ret) = 2

\* C9: pick_multi_matches returns B + C results, for each row a copy of a
\* maximum of the row with comp None, then for each column a copy of a
\* maximum of the column with base None; so a base is counted TP-base iff a
\* pair of its row has state = true, a comp TP-comp iff a pair of its column
\* has, and one base matching two comps gives TP-base = 1 and TP-comp = 2.
C9_MultiRowAndColumnMaxima ==
    (Picked /\ Picker(params) = "multi") =>
       LET B == Len(chunk.base)
           C == Len(chunk.comp)
           m == TheMatrix
       IN  /\ Len(ret) = B + C
           /\ \A b \in 1..B : \E c \in 1..C :
                 /\ \A k \in 1..C : ~MatchLt(m[b][c], m[b][k])
                 /\ ret[b] = [m[b][c] EXCEPT !.comp = None]
           /\ \A c \in 1..C : \E b \in 1..B :
                 /\ \A k \in 1..B : ~MatchLt(m[b][c], m[k][c])
                 /\ ret[B + c] = [m[b][c] EXCEPT !.base = None]
           /\ Range(Tally.tpb_out) = { b \in 1..B : \E c \in 1..C : m[b][c].state }
           /\ Len(Tally.tpb_out) = Tally.stats_box.TP_base
           /\ Tally.stats_box.TP_base = Cardinality(Range(Tally.tpb_out))
           /\ Range(Tally.tpc_out) = { c \in 1..C : \E b \in 1..B : m[b][c].state }
           /\ Tally.stats_box.TP_comp = Cardinality(Range(Tally.tpc_out))
           /\ (B = 1 /\ C = 2 /\ m[1][1].state /\ m[1][2].state)
                 => (Tally.stats_box.TP_base = 1 /\ Tally.stats_box.TP_comp = 2)

\* C9 witness: one base matched two comps.
C9_Witness ==
    /\ Picked /\ Picker(params) = "multi"
    /\ Len(chunk.base) = 1 /\ Len(chunk.comp) = 2
    /\ chunk.sim[1][1].state /\ chunk.sim[1][2].state
    /\ Tally.stats_box.TP_base = 1 /\ Tally.stats_box.TP_comp = 2

\* C10: under the single-best picker a result with state = true has base and
\* comp, a result with a side None has state = false and multi = true, so
\* TP-base = TP-comp; one base and two comps that both pass give
\* TP-base = 1, TP-comp = 1, FP = 1.
C10_SingleBest ==
    (Picked /\ Picker(params) = "single") =>
       /\ \A i \in DOMAIN ret :
             /\ ret[i].state => (ret[i].base # None /\ ret[i].comp # None)
             /\ (ret[i].base = None \/ ret[i].comp = None)
                   => (~ret[i].state /\ ret[i].multi)
       /\ Tally.stats_box.TP_base = Tally.stats_box.TP_comp
       /\ (Len(chunk.base) = 1 /\ Len(chunk.comp) = 2
             /\ chunk.sim[1][1].state /\ chunk.sim[1][2].state)
            => /\ Tally.stats_box.TP_base = 1
               /\ Tally.stats_box.TP_comp = 1
               /\ Tally.stats_box.FP = 1

\* One homozygous base and two heterozygous comps that both pass.
HomBaseTwoHetComps ==
    /\ Len(chunk.base) = 1 /\ Len(chunk.comp) = 2
    /\ chunk.base[1].gt = 2
    /\ chunk.comp[1].gt = 1 /\ chunk.comp[2].gt = 1
    /\ chunk.sim[1][1].state /\ chunk.sim[1][2].state

\* C11: under the genotype-aware picker a homozygous base and two
\* heterozygous comps that both pass give two results, the first with base
\* and comp, the second with base None, comp set and state = true; written,
\* they count TP-base = 1, TP-comp = 2, FN = 0, FP = 0.
C11_HomBaseTakesBothComps ==
    (Picked /\ Picker(params) = "gtcomp" /\ HomBaseTwoHetComps) =>
       /\ Len(ret) = 2
       /\ ret[1].base # None /\ ret[1].comp # None /\ ret[1].state
       /\ ret[2].base = None /\ ret[2].comp # None /\ ret[2].state
       /\ Tally.tpb_out = <<1>>
       /\ Range(Tally.tpc_out) = {1, 2}
       /\ Tally.stats_box.TP_base = 1 /\ Tally.stats_box.TP_comp = 2
       /\ Tally.stats_box.FN = 0 /\ Tally.stats_box.FP = 0

\* What write_match counts of the results `rets`.
Counted(rets) ==
    LET box == WriteAll(BenchOutput, rets, params.sizemin).stats_box
    IN  <<box.TP_base, box.TP_comp, box.FN, box.FP>>

\* C12: for pick_single_matches and pick_gtcomp_matches the numbers of
\* TP-base, TP-comp, FN and FP of a matrix are the same for every order in
\* which the sort may leave the MatchResults that compare equal.
C12_TieOrderIrrelevant ==
    (Picked /\ Picker(params) # "multi") =>
       \A walk \in SortedWalks(TheMatrix) :
          Counted(IF Picker(params) = "single"
                  THEN pick_single_matches(TheMatrix, walk)
                  ELSE pick_gtcomp_matches(TheMatrix, walk)) = Counted(ret)

\* The ids of the base variants and of the comp variants in `rets`.
BaseIds(rets) == { rets[i].base.id : i \in { k \in DOMAIN rets : rets[k].base # None } }
CompIds(rets) == { rets[i].comp.id : i \in { k \in DOMAIN rets : rets[k].comp # None } }

\* Two records of `entries` with the same str().
SameStr(entries) ==
    { p \in (DOMAIN entries) \X (DOMAIN entries) :
        p[1] < p[2] /\ entries[p[1]].str = entries[p[2]].str }

\* C19: in pick_single_matches, of two base variants (two comp variants) of a
\* chunk with the same str() at most one appears in a returned result, so at
\* most one is counted TP or FN (TP or FP), and the loop ends with base_cnt
\* (comp_cnt) above zero.
C19_SameStrMasked ==
    (Picked /\ Picker(params) = "single") =>
       \A walk \in SortedWalks(TheMatrix) :
          LET end == single_end(TheMatrix, walk)
          IN  end.ret = ret =>
                /\ \A p \in SameStr(chunk.base) :
                      /\ ~({p[1], p[2]} \subseteq BaseIds(ret))
                      /\ ~({p[1], p[2]} \subseteq
                             Range(Tally.tpb_out) \cup Range(Tally.fn_out))
                      /\ end.base_cnt > 0
                /\ \A p \in SameStr(chunk.comp) :
                      /\ ~({p[1], p[2]} \subseteq CompIds(ret))
                      /\ ~({p[1], p[2]} \subseteq
                             Range(Tally.tpc_out) \cup Range(Tally.fp_out))
                      /\ end.comp_cnt > 0

\* C19 witness: the single-best picker ran on a chunk whose two base records
\* have the same str() and returned one of them.
C19_Witness ==
    /\ Picked /\ Picker(params) = "single"
    /\ SameStr(chunk.base) # {}
    /\ Cardinality(BaseIds(ret)) = 1
    /\ Len(ret) = Len(chunk.comp)

\* All str() of the chunk's base variants differ, and all of its comp variants.
DistinctStr == SameStr(chunk.base) = {} /\ SameStr(chunk.comp) = {}

\* C20: with all str() distinct, over the results pick_gtcomp_matches returns
\* for a matrix each base variant is the base of at most one result and each
\* comp variant the comp of at most one.
C20_GtcompEmitsOnce ==
    (Picked /\ Picker(params) = "gtcomp" /\ DistinctStr) =>
       \A i, j \in DOMAIN ret :
          i < j =>
            /\ ret[i].base # None => ret[j].base # ret[i].base
            /\ ret[i].comp # None => ret[j].comp # ret[i].comp

\* C20 witness: a homozygous base took two comps; the second result came
\* with its base set to None.
C20_Witness ==
    /\ Picked /\ Picker(params) = "gtcomp" /\ DistinctStr
    /\ Len(chunk.base) = 1 /\ chunk.base[1].gt = 2
    /\ Len(ret) = 2
    /\ ret[1].base # None /\ ret[2].base = None /\ ret[2].state

\* How often the variant `id` is the base (the comp) of a result of `rets`.
AsBase(rets, id) ==
    Cardinality({ k \in DOMAIN rets : rets[k].base # None /\ rets[k].base.id = id })
AsComp(rets, id) ==
    Cardinality({ k \in DOMAIN rets : rets[k].comp # None /\ rets[k].comp.id = id })

\* C21: with all str() distinct, pick_single_matches on a B x C matrix
\* returns results in which every base variant is the base exactly once and
\* every comp variant the comp exactly once, whatever order the sort leaves
\* equal results in; base_cnt and comp_cnt are never below zero during the
\* walk and both are zero when it ends.
C21_SingleEachOnce ==
    (Picked /\ Picker(params) = "single" /\ DistinctStr) =>
       /\ \A i \in DOMAIN chunk.base : AsBase(ret, chunk.base[i].id) = 1
       /\ \A j \in DOMAIN chunk.comp : AsComp(ret, chunk.comp[j].id) = 1
       /\ \A walk \in SortedWalks(TheMatrix) :
             LET end == single_end(TheMatrix, walk)
             IN  /\ \A i \in DOMAIN chunk.base : AsBase(end.ret, chunk.base[i].id) = 1
                 /\ \A j \in DOMAIN chunk.comp : AsComp(end.ret, chunk.comp[j].id) = 1
                 /\ end.base_cnt = 0 /\ end.comp_cnt = 0
                 /\ \A k \in 0..Len(walk) :
                       LET mid == single_end(TheMatrix, SubSeq(walk, 1, k))
                       IN  mid.base_cnt >= 0 /\ mid.comp_cnt >= 0

\* C21 witness: the single-best picker ran on a matrix of two base variants
\* and one comp variant with distinct str(); it returned a pair and then the
\* other base alone.
C21_Witness ==
    /\ Picked /\ Picker(params) = "single" /\ DistinctStr
    /\ Len(chunk.base) = 2 /\ Len(chunk.comp) = 1
    /\ Len(ret) = 2
    /\ ret[1].base # None /\ ret[1].comp # None
    /\ ret[2].base # None /\ ret[2].comp = None

\* C22: with all str() distinct and allele counts in {0, 1, 2},
\* pick_gtcomp_matches on a B x C matrix returns results in which every base
\* variant is the base at least once and every comp variant the comp at least
\* once, so write_match puts every variant of the chunk into TP, FN or FP.
C22_GtcompCountsAll ==
    (Picked /\ Picker(params) = "gtcomp" /\ DistinctStr) =>
       /\ \A i \in DOMAIN chunk.base :
             /\ AsBase(ret, chunk.base[i].id) >= 1
             /\ chunk.base[i].id \in Range(Tally.tpb_out) \cup Range(Tally.fn_out)
       /\ \A j \in DOMAIN chunk.comp :
             /\ AsComp(ret, chunk.comp[j].id) >= 1
             /\ chunk.comp[j].id \in Range(Tally.tpc_out) \cup Range(Tally.fp_out)

(***************************************************************************)
(* Properties of the run (Spec)                                            *)
(***************************************************************************)
IsOne(frac) == frac[1] = frac[2] /\ frac[2] > 0

\* Base and comp are the same catalog: record for record the same variant,
\* the measures of a pair the same either way round, and each variant
\* against itself passing with a rank no pair exceeds.
IdenticalInputs ==
    /\ Len(chunk.base) = Len(chunk.comp)
    /\ Len(chunk.base) >= 1
    /\ \A i \in DOMAIN chunk.base :
          /\ chunk.comp[i] = chunk.base[i]
          /\ chunk.sim[i][i].state
          /\ \A j, k \in DOMAIN chunk.base :
                /\ chunk.sim[j][k] = chunk.sim[k][j]
                /\ ~MatchLt(chunk.sim[i][i], chunk.sim[j][k])

\* C2: with identical base and comp inputs under the single-best picker every
\* base variant is written to tp-base, FN = 0 and FP = 0, and precision,
\* recall and f1 are 1.
C2_IdenticalInputsAllTrue ==
    (pc = "done" /\ Picker(params) = "single" /\ IdenticalInputs) =>
       /\ Range(output.tpb_out) = { chunk.base[i].id : i \in DOMAIN chunk.base }
       /\ output.stats_box.FN = 0
       /\ output.stats_box.FP = 0
       /\ IsOne(output.stats_box.precision)
       /\ IsOne(output.stats_box.recall)
       /\ IsOne(output.stats_box.f1)

\* The MatchResult a picker or build_matrix returned has no base, did not
\* match, and its comp lies outside the original include regions.
Dropped(m) == m.base = None /\ m.comp # None /\ ~m.state /\ ~m.comp.inc

\* C4 as claimed: every MatchResult handed to write_match has a base or a comp.
C4_Original ==
    \A i \in DOMAIN handed : HasSide(handed[i])

\* C4 as amended: every MatchResult compare_chunk returns has a base or a
\* comp, and so has every MatchResult handed to write_match except, when
\* extend is set, a result without base and with state = false whose comp is
\* outside the original include regions: that one is handed over with both
\* sides None.
C4_Amended ==
    /\ \A i \in DOMAIN ret : HasSide(ret[i])
    /\ \A i \in DOMAIN handed :
          IF params.extend # 0 /\ Dropped(ret[i])
          THEN handed[i].base = None /\ handed[i].comp = None
          ELSE HasSide(handed[i]) /\ handed[i].base = ret[i].base

\* C4 witness: with extend set, a chunk of comps only was compared and a
\* result was handed to write_match with neither base nor comp, another with
\* its comp.
C4_Witness ==
    /\ params.extend # 0
    /\ Len(chunk.base) = 0
    /\ \E i \in DOMAIN handed : ~HasSide(handed[i])
    /\ \E i \in DOMAIN handed : handed[i].comp # None

Increasing(seq) == \A i, j \in DOMAIN seq : i < j => seq[i] < seq[j]

\* C5: in each of tp-base, fn, tp-comp and fp the records are written in the
\* order in which the input catalog holds them.
C5_InputOrderKept ==
    /\ Increasing(output.tpb_out)
    /\ Increasing(output.fn_out)
    /\ Increasing(output.tpc_out)
    /\ Increasing(output.fp_out)

\* The call of write_match just made was for a returned MatchResult whose
\* comp came in through the extended regions only.
OutsideCompWritten ==
    /\ pc = "write" /\ calls' = calls + 1
    /\ params.extend # 0
    /\ ret[calls'].comp # None /\ ~ret[calls'].comp.inc

\* C18: with extend set, a comp outside the original include regions whose
\* MatchResult has state = false is not written to fp and not counted in FP
\* or comp cnt, while a base of the same MatchResult is written to fn and
\* counted in base cnt and FN; with state = true the comp is written to
\* tp-comp and counted in TP-comp and comp cnt.
C18_OutsideCompAccounting ==
    [][ OutsideCompWritten =>
          LET m == ret[calls']
          IN  IF m.state
              THEN /\ output'.tpc_out = Append(output.tpc_out, m.comp.id)
                   /\ output'.stats_box.TP_comp = output.stats_box.TP_comp + 1
                   /\ output'.stats_box.comp_cnt = output.stats_box.comp_cnt + 1
              ELSE /\ output'.fp_out = output.fp_out
                   /\ output'.tpc_out = output.tpc_out
                   /\ output'.stats_box.FP = output.stats_box.FP
                   /\ output'.stats_box.comp_cnt = output.stats_box.comp_cnt
                   /\ m.base # None =>
                         /\ output'.fn_out = Append(output.fn_out, m.base.id)
                         /\ output'.stats_box.FN = output.stats_box.FN + 1
                         /\ output'.stats_box.base_cnt = output.stats_box.base_cnt + 1 ]_vars

\* C18 witness: with extend set, a failed pair whose comp is at least sizemin
\* long and outside the original include regions was written: its base went
\* to fn, its comp nowhere; and a passing pair with such a comp was written.
C18_Witness ==
    /\ params.extend # 0
    /\ \E i \in DOMAIN handed :
          /\ ret[i].base # None /\ ret[i].comp # None /\ ~ret[i].comp.inc
          /\ ~ret[i].state /\ ret[i].comp.size >= params.sizemin
          /\ handed[i].comp = None
          /\ ret[i].base.id \in Range(output.fn_out)
    /\ \E i \in DOMAIN handed :
          /\ ret[i].comp # None /\ ~ret[i].comp.inc /\ ret[i].state
          /\ ret[i].comp.id \in Range(output.tpc_out)
    /\ output.fp_out = <<>>

(***************************************************************************)
(* Properties of bench_main (SpecMain)                                     *)
(***************************************************************************)
\* The sample checks catalog `c` fails.
FailingSampleChecks(c, who) ==
    (IF c.sample_id = "out" THEN {who \o "_sample"} ELSE {})
    \cup (IF c.samples = 0 THEN {who \o "_nosamples"} ELSE {})

\* Every check the invocation fails: those of check_params and, of the
\* catalogs that are there to be opened, the sample checks.
FailingChecks ==
    check_params(args)
    \cup (IF args.base.exists THEN FailingSampleChecks(args.base, "base") ELSE {})
    \cup (IF args.comp.exists THEN FailingSampleChecks(args.comp, "comp") ELSE {})

\* C6: when bench_main exits with 100 every failing check has been reported.
C6_AllErrorsReported ==
    exit_code = 100 => errors = FailingChecks

\* C7: whenever a check fails bench_main ends with exit code 100, and no
\* output directory is made and no record written.
C7_FailureExits100 ==
    (pc # "main" /\ FailingChecks # {}) =>
       /\ exit_code = 100
       /\ output = NoOutput

====
